---- MODULE Spec2Model ----
(***************************************************************************)
(* Combinatorial batch-auction winner selection (src/data/mechanism.py):   *)
(* the baseline filter, the greedy subset-filtering selection, the reward  *)
(* map and the counterfactual replay that threads the settled-order set    *)
(* through a sequence of auctions.                                         *)
(*                                                                         *)
(* A Trade is a record [id, sell_token, buy_token, score]; a Solution is a *)
(* record [id, solver, score, trades] with trades a sequence of Trades.    *)
(* A Python dict is a function whose DOMAIN is the key set, a Python set a *)
(* set, a Python list a sequence.                                          *)
(***************************************************************************)
EXTENDS Integers, Sequences, FiniteSets, TLC

VARIABLES
    pc,                     \* position of the caller: which call comes next
    solutions,              \* the list passed to the operation under way
    cumulative_filtering,   \* SubsetFilteringSelection.cumulative_filtering
    remove_executed_orders, \* argument of run_counter_factual_winners
    solutions_filtered,     \* replay: the list handed to the mechanism
    filtered_solutions,     \* winners_and_rewards: output of the filter
    winners,                \* output of select_winners
    rewards,                \* output of compute_rewards
    winners_per_auction,    \* replay: the list of winner lists so far
    order_uids_settled      \* replay: the settled-order set

vars == <<pc, solutions, cumulative_filtering, remove_executed_orders,
          solutions_filtered, filtered_solutions, winners, rewards,
          winners_per_auction, order_uids_settled>>

-----------------------------------------------------------------------------
(* Helpers on sequences.                                                   *)

Range(s) == {s[i] : i \in 1..Len(s)}

\* [f(x) for x in s if keep(x)], left to right
RECURSIVE Pick(_, _)
Pick(s, idx) ==
    IF idx = <<>> THEN <<>> ELSE <<s[Head(idx)]>> \o Pick(s, Tail(idx))

\* the increasing sequence of the indices i of 1..n with keep[i]
RECURSIVE IndicesWhere(_, _)
IndicesWhere(n, keep) ==
    IF n = 0 THEN <<>>
    ELSE IF keep[n] THEN Append(IndicesWhere(n - 1, keep), n)
         ELSE IndicesWhere(n - 1, keep)

\* sum(trade.score for trade in trades), left to right from 0
RECURSIVE SumScores(_)
SumScores(trades) ==
    IF trades = <<>> THEN 0 ELSE Head(trades).score + SumScores(Tail(trades))

TokenPair(trade) == <<trade.sell_token, trade.buy_token>>

-----------------------------------------------------------------------------
(* Scoring and baselines.                                                  *)

get_orders(sols) ==
    UNION {{t.id : t \in Range(s.trades)} : s \in Range(sols)}

\* dict keyed by directed token pair; the value is the sum of the scores of
\* the trades on that pair (scores.get(pair, 0) + trade.score per trade)
aggregate_scores(solution) ==
    [p \in {TokenPair(t) : t \in Range(solution.trades)} |->
        SumScores(SelectSeq(solution.trades, LAMBDA t : TokenPair(t) = p))]

\* one iteration of the loop of compute_baseline_solutions
BaselineStep(baseline_solutions, solution) ==
    LET aggregated_scores == aggregate_scores(solution)
        keys == DOMAIN aggregated_scores
    IN  IF Cardinality(keys) > 1 \/ keys = {} THEN baseline_solutions
        ELSE LET token_pair == CHOOSE p \in keys : TRUE
                 score == aggregated_scores[token_pair]
             IN  IF \/ token_pair \notin DOMAIN baseline_solutions
                    \/ score > baseline_solutions[token_pair].score
                 THEN [p \in DOMAIN baseline_solutions \cup {token_pair} |->
                          IF p = token_pair THEN solution
                          ELSE baseline_solutions[p]]
                 ELSE baseline_solutions

RECURSIVE BaselineUpTo(_, _)
BaselineUpTo(sols, k) ==
    IF k = 0 THEN <<>>
    ELSE BaselineStep(BaselineUpTo(sols, k - 1), sols[k])

compute_baseline_solutions(sols) == BaselineUpTo(sols, Len(sols))

-----------------------------------------------------------------------------
(* BaselineFilter.                                                         *)

\* as PassesBaseline, with any() for all()
PassesBaseline_Any(solution, baseline_solutions) ==
    LET aggregated_scores == aggregate_scores(solution)
    IN  \/ Cardinality(DOMAIN aggregated_scores) = 1
        \/ \E token_pair \in DOMAIN aggregated_scores :
              aggregated_scores[token_pair] >=
                 (IF token_pair \in DOMAIN baseline_solutions
                  THEN SumScores(baseline_solutions[token_pair].trades)
                  ELSE 0)

\* as PassesBaseline, without the pass of the single-pair solutions
PassesBaseline_NoSinglePass(solution, baseline_solutions) ==
    LET aggregated_scores == aggregate_scores(solution)
    IN  \A token_pair \in DOMAIN aggregated_scores :
            aggregated_scores[token_pair] >=
               (IF token_pair \in DOMAIN baseline_solutions
                THEN SumScores(baseline_solutions[token_pair].trades)
                ELSE 0)

\* the condition of the if in BaselineFilter.filter
PassesBaseline(solution, baseline_solutions) ==
    LET aggregated_scores == aggregate_scores(solution)
    IN  \/ Cardinality(DOMAIN aggregated_scores) = 1
        \/ \A token_pair \in DOMAIN aggregated_scores :
              aggregated_scores[token_pair] >=
                 (IF token_pair \in DOMAIN baseline_solutions
                  THEN SumScores(baseline_solutions[token_pair].trades)
                  ELSE 0)

\* the indices of the solutions BaselineFilter.filter keeps, in input order
FilterIndices(sols) ==
    LET baseline_solutions == compute_baseline_solutions(sols)
    IN  IndicesWhere(Len(sols),
            [i \in 1..Len(sols) |-> PassesBaseline(sols[i], baseline_solutions)])

BaselineFilter_filter(sols) == Pick(sols, FilterIndices(sols))

-----------------------------------------------------------------------------
(* DirectedTokenPairs and SubsetFilteringSelection.                        *)

get_filter_set(solution) == {TokenPair(t) : t \in Range(solution.trades)}

\* as InsertByScore, ascending (reverse=True forgotten)
InsertByScore_Ascending(order, i, sols) ==
    LET ahead == SelectSeq(order, LAMBDA j : sols[j].score <= sols[i].score)
        behind == SelectSeq(order, LAMBDA j : sols[j].score > sols[i].score)
    IN  ahead \o <<i>> \o behind

\* as InsertByScore, descending with equal keys in reverse input order
\* (an ascending sort, reversed)
InsertByScore_Unstable(order, i, sols) ==
    LET ahead == SelectSeq(order, LAMBDA j : sols[j].score > sols[i].score)
        behind == SelectSeq(order, LAMBDA j : sols[j].score <= sols[i].score)
    IN  ahead \o <<i>> \o behind

\* sorted(..., key=score, reverse=True) keeps equal keys in input order: the
\* element goes after every element whose score is not less than its own
InsertByScore(order, i, sols) ==
    LET ahead == SelectSeq(order, LAMBDA j : sols[j].score >= sols[i].score)
        behind == SelectSeq(order, LAMBDA j : sols[j].score < sols[i].score)
    IN  ahead \o <<i>> \o behind

RECURSIVE SortedUpTo(_, _)
SortedUpTo(sols, k) ==
    IF k = 0 THEN <<>>
    ELSE InsertByScore(SortedUpTo(sols, k - 1), k, sols)

\* the indices of the input list in the order of sorted_solutions
sorted_solutions(sols) == SortedUpTo(sols, Len(sols))

\* as SelectStep, without the union of the non-cumulative mode
SelectStep_NoUnionOnAccept(st, i, sols, cumulative) ==
    LET solution_filter_set == get_filter_set(sols[i])
        accept == (solution_filter_set \cap st.filter_set) = {}
    IN  [selection |-> IF accept THEN Append(st.selection, i) ELSE st.selection,
         filter_set |-> IF cumulative
                        THEN st.filter_set \cup solution_filter_set
                        ELSE st.filter_set]

\* as SelectStep, with the cumulative union in an else branch: the
\* cumulative mode blocks the rejected solutions only
SelectStep_ElseCumulative(st, i, sols, cumulative) ==
    LET solution_filter_set == get_filter_set(sols[i])
        accept == (solution_filter_set \cap st.filter_set) = {}
    IN  [selection |-> IF accept THEN Append(st.selection, i) ELSE st.selection,
         filter_set |-> IF accept = cumulative
                        THEN st.filter_set
                        ELSE st.filter_set \cup solution_filter_set]

\* one iteration of the loop of select_solutions on the solution at index i;
\* the loop state is [selection, filter_set]
SelectStep(st, i, sols, cumulative) ==
    LET solution_filter_set == get_filter_set(sols[i])
        accept == (solution_filter_set \cap st.filter_set) = {}
    IN  [selection |-> IF accept THEN Append(st.selection, i) ELSE st.selection,
         filter_set |-> IF accept \/ cumulative
                        THEN st.filter_set \cup solution_filter_set
                        ELSE st.filter_set]

\* the loop states of select_solutions from the state st on: st, then the
\* state after each of the iterations over the indices of rest
RECURSIVE Scan(_, _, _, _)
Scan(st, rest, sols, cumulative) ==
    IF rest = <<>> THEN <<st>>
    ELSE <<st>> \o Scan(SelectStep(st, Head(rest), sols, cumulative),
                        Tail(rest), sols, cumulative)

\* the loop states of one call: before the loop and after each iteration
ScanStates(sols, cumulative) ==
    Scan([selection |-> <<>>, filter_set |-> {}], sorted_solutions(sols), sols,
         cumulative)

\* the indices (into the input list) of the selected solutions, in output order
SelectIndices(sols, cumulative) ==
    LET states == ScanStates(sols, cumulative)
    IN  states[Len(states)].selection

select_solutions(sols, cumulative) == Pick(sols, SelectIndices(sols, cumulative))

\* DirectSelection.select_winners
select_winners(sols, cumulative) == select_solutions(sols, cumulative)

-----------------------------------------------------------------------------
(* Rewards and the mechanism.                                              *)

\* NoReward.compute_rewards: {winner.id: 0 for winner in winners}
compute_rewards(ws, sols) == [k \in {w.id : w \in Range(ws)} |-> 0]

-----------------------------------------------------------------------------
(* Counterfactual replay.                                                  *)

\* as remove_order_from_solution, keeping the declared score
remove_order_from_solution_KeepScore(solution, order_uids) ==
    [id |-> solution.id,
     solver |-> solution.solver,
     score |-> solution.score,
     trades |-> SelectSeq(solution.trades,
                          LAMBDA trade : trade.id \notin order_uids)]

remove_order_from_solution(solution, order_uids) ==
    LET trades_filtered ==
            SelectSeq(solution.trades, LAMBDA trade : trade.id \notin order_uids)
    IN  [id |-> solution.id,
         solver |-> solution.solver,
         score |-> SumScores(trades_filtered),
         trades |-> trades_filtered]

\* as KeepsCandidate, with >= for >
KeepsCandidate_NonNegative(s) == s.score >= 0

\* a solution stays a candidate of the auction when its recomputed score is
\* strictly positive (s.score > 0)
KeepsCandidate(s) == s.score > 0

\* the list handed to the mechanism by one iteration of the replay loop
CandidateIndices(sols, order_uids) ==
    IndicesWhere(Len(sols),
        [i \in 1..Len(sols) |->
            KeepsCandidate(remove_order_from_solution(sols[i], order_uids))])

Candidates(sols, order_uids, remove) ==
    IF remove
    THEN LET removed == [i \in 1..Len(sols) |->
                            remove_order_from_solution(sols[i], order_uids)]
         IN  Pick(removed, CandidateIndices(sols, order_uids))
    ELSE sols

\* as SettledAfter, assigning the set instead of updating it
SettledAfter_Overwrite(order_uids, ws) == get_orders(ws)

\* order_uids_settled.update(get_orders(winners))
SettledAfter(order_uids, ws) == order_uids \cup get_orders(ws)

\* FilterRankRewardMechanism.winners_and_rewards with BaselineFilter,
\* DirectSelection(SubsetFilteringSelection(cumulative)) and NoReward
winners_and_rewards(sols, cumulative) ==
    LET filtered == BaselineFilter_filter(sols)
        ws == select_winners(filtered, cumulative)
    IN  [filtered_solutions |-> filtered,
         winners |-> ws,
         rewards |-> compute_rewards(ws, filtered)]

-----------------------------------------------------------------------------
(* Bounded inputs.                                                         *)

MaxSolutions == 4         \* longest list given to select_solutions
MaxFilterSolutions == 3   \* longest list given to winners_and_rewards
MaxAuctionSolutions == 2  \* longest list of one auction of a replay
MaxAuctions == 2          \* longest replay

Trade(id, sell, buy, score) ==
    [id |-> id, sell_token |-> sell, buy_token |-> buy, score |-> score]

Solution(id, solver, score, trades) ==
    [id |-> id, solver |-> solver, score |-> score, trades |-> trades]

\* the sequences over S of length at most n
SeqsUpTo(S, n) == UNION {[1..k -> S] : k \in 0..n}

\* solution ids and solvers by position in a list
SolutionIds == <<"s1", "s2", "s3", "s4", "s5", "s6">>
SolverOf == <<"0xa", "0xb", "0xa", "0xb", "0xa", "0xb">>

\* a list of shapes [score, trades] as a list of Solutions
AsSolutions(shapes) ==
    [i \in 1..Len(shapes) |->
        Solution(SolutionIds[i], SolverOf[i], shapes[i].score, shapes[i].trades)]

\* select_solutions reads the declared score and the token pairs of the trades
SelectTradeLists ==
    LET ab == Trade("t1", "A", "B", 1)
        ba == Trade("t2", "B", "A", 1)
        ac == Trade("t3", "A", "C", 1)
    IN  {<<>>, <<ab>>, <<ba>>, <<ac>>, <<ab, ba>>, <<ab, ac>>, <<ba, ac>>}

SelectShapes == [score : {1, 2}, trades : SelectTradeLists]

\* the filter reads the trades' pairs and scores and the declared score
FilterTrades ==
    {Trade("t1", "A", "B", 1), Trade("t2", "A", "B", 2),
     Trade("t3", "B", "A", 1), Trade("t4", "B", "A", 2)}

\* no trade, one trade, two trades on A->B, or one on A->B and one on B->A
FilterTradeLists ==
    {<<>>} \cup {<<t>> : t \in FilterTrades}
           \cup {<<Trade("t1", "A", "B", 1), Trade("t2", "A", "B", 2)>>}
           \cup {<<a, b>> : <<a, b>> \in
                    {<<a, b>> \in FilterTrades \X FilterTrades :
                        a.sell_token = "A" /\ b.sell_token = "B"}}

\* the declared score is the sum of the trades' scores, or 3 whatever they are
FilterShapes ==
    {[score |-> sc, trades |-> ts] :
        <<sc, ts>> \in {<<sc, ts>> \in (0..4) \X FilterTradeLists :
                           sc \in {SumScores(ts), 3}}}

\* the solutions of a replay: orders t1..t4 bid on by three solvers; s2
\* declares a score that is not the sum of its trades, s4 sums to zero
ReplaySolutions ==
    LET t1 == Trade("t1", "A", "B", 2)
        t2 == Trade("t2", "B", "A", 1)
        t3 == Trade("t3", "A", "B", -1)
        t4 == Trade("t4", "A", "C", 1)
    IN  {Solution("s1", "0xa", 2, <<t1>>),
         Solution("s2", "0xb", 5, <<t1, t2>>),
         Solution("s3", "0xa", 1, <<t2>>),
         Solution("s4", "0xc", 0, <<t2, t3>>),
         Solution("s5", "0xc", 3, <<t4, t1>>)}

-----------------------------------------------------------------------------
(* SpecSelect: one call of SubsetFilteringSelection.select_solutions.      *)

Idle ==
    /\ remove_executed_orders = FALSE
    /\ solutions_filtered = <<>>
    /\ filtered_solutions = <<>>
    /\ winners = <<>>
    /\ rewards = <<>>
    /\ winners_per_auction = <<>>
    /\ order_uids_settled = {}

InitSelect ==
    /\ pc = "select"
    /\ solutions \in {AsSolutions(sh) : sh \in SeqsUpTo(SelectShapes, MaxSolutions)}
    /\ cumulative_filtering \in BOOLEAN
    /\ Idle

SelectSolutions ==
    /\ pc = "select"
    /\ winners' = select_solutions(solutions, cumulative_filtering)
    /\ pc' = "done"
    /\ UNCHANGED <<solutions, cumulative_filtering, remove_executed_orders,
                   solutions_filtered, filtered_solutions, rewards,
                   winners_per_auction, order_uids_settled>>

NextSelect == SelectSolutions

SpecSelect == InitSelect /\ [][NextSelect]_vars

-----------------------------------------------------------------------------
(* SpecMechanism: one call of FilterRankRewardMechanism.winners_and_rewards *)

InitMechanism ==
    /\ pc = "mechanism"
    /\ solutions \in
          {AsSolutions(sh) : sh \in SeqsUpTo(FilterShapes, MaxFilterSolutions)}
    /\ cumulative_filtering \in BOOLEAN
    /\ Idle

WinnersAndRewards ==
    /\ pc = "mechanism"
    /\ LET out == winners_and_rewards(solutions, cumulative_filtering)
       IN  /\ filtered_solutions' = out.filtered_solutions
           /\ winners' = out.winners
           /\ rewards' = out.rewards
    /\ pc' = "done"
    /\ UNCHANGED <<solutions, cumulative_filtering, remove_executed_orders,
                   solutions_filtered, winners_per_auction, order_uids_settled>>

NextMechanism == WinnersAndRewards

SpecMechanism == InitMechanism /\ [][NextMechanism]_vars

-----------------------------------------------------------------------------
(* Spec: run_counter_factual_winners, one loop iteration per step.         *)

Init ==
    /\ pc = "loop"
    /\ solutions = <<>>
    /\ cumulative_filtering \in BOOLEAN
    /\ remove_executed_orders \in BOOLEAN
    /\ solutions_filtered = <<>>
    /\ filtered_solutions = <<>>
    /\ winners = <<>>
    /\ rewards = <<>>
    /\ winners_per_auction = <<>>
    /\ order_uids_settled = {}

\* the body of the for loop, on the next list of auction_solutions_list
RunAuction(sols) ==
    /\ pc = "loop"
    /\ Len(winners_per_auction) < MaxAuctions
    /\ LET handed == Candidates(sols, order_uids_settled, remove_executed_orders)
           out == winners_and_rewards(handed, cumulative_filtering)
       IN  /\ solutions' = sols
           /\ solutions_filtered' = handed
           /\ filtered_solutions' = out.filtered_solutions
           /\ winners' = out.winners
           /\ rewards' = out.rewards
           /\ winners_per_auction' = Append(winners_per_auction, out.winners)
           /\ order_uids_settled' = SettledAfter(order_uids_settled, out.winners)
    /\ UNCHANGED <<pc, cumulative_filtering, remove_executed_orders>>

\* the list is exhausted: return winners_per_auction
Return ==
    /\ pc = "loop"
    /\ pc' = "returned"
    /\ UNCHANGED <<solutions, cumulative_filtering, remove_executed_orders,
                   solutions_filtered, filtered_solutions, winners, rewards,
                   winners_per_auction, order_uids_settled>>

Next ==
    \/ \E sols \in SeqsUpTo(ReplaySolutions, MaxAuctionSolutions) : RunAuction(sols)
    \/ Return

Spec == Init /\ [][Next]_vars

-----------------------------------------------------------------------------
(* Vocabulary of the properties. In SpecSelect and SpecMechanism the       *)
(* solutions of the input list carry distinct ids, so an id names a        *)
(* position of the input.                                                  *)

Ids(sols) == {x.id : x \in Range(sols)}

Pairs(s) == {<<t.sell_token, t.buy_token>> : t \in Range(s.trades)}

TradeIds(s) == {t.id : t \in Range(s.trades)}

\* the sum of the scores of the trades of s on the pair p
PairScore(s, p) ==
    SumScores(SelectSeq(s.trades,
                        LAMBDA t : <<t.sell_token, t.buy_token>> = p))

\* the position in the input list of the solution carrying this id
Position(id) == CHOOSE i \in 1..Len(SolutionIds) : SolutionIds[i] = id

-----------------------------------------------------------------------------
(* Properties of select_solutions, under SpecSelect.                       *)

\* C1: any two solutions at distinct places of the list select_solutions
\* returns, in either mode, have disjoint sets of directed token pairs.
C1_SelectedPairwiseDisjoint ==
    pc = "done" =>
        \A i, j \in 1..Len(winners) :
            i # j => Pairs(winners[i]) \cap Pairs(winners[j]) = {}

\* two winners that trade, chosen while a conflicting solution is left out
C1_Witness ==
    /\ pc = "done"
    /\ Len(winners) >= 2
    /\ \A i \in 1..Len(winners) : Pairs(winners[i]) # {}
    /\ \E x \in Range(solutions) :
          /\ x.id \notin Ids(winners)
          /\ \E w \in Range(winners) : Pairs(w) \cap Pairs(x) # {}

\* C5 as claimed: in either mode, a solution left out while a solution of
\* strictly lower score is selected shares a directed token pair with a
\* selected solution whose score is at least its own.
C5_LeftOutConflictsWithSelected ==
    pc = "done" =>
        \A x \in Range(solutions) :
            (/\ x.id \notin Ids(winners)
             /\ \E w \in Range(winners) : w.score < x.score)
            => \E z \in Range(winners) :
                  /\ z.score >= x.score
                  /\ Pairs(z) \cap Pairs(x) # {}

\* C5 amended: with cumulative_filtering false the left-out solution shares
\* a pair with a selected solution whose score is at least its own; with
\* cumulative_filtering true it shares a pair with another solution of the
\* input, selected or not, whose score is at least its own.
C5_LeftOutConflictsWithEarlier ==
    pc = "done" =>
        \A x \in Range(solutions) :
            (/\ x.id \notin Ids(winners)
             /\ \E w \in Range(winners) : w.score < x.score)
            => \E z \in (IF cumulative_filtering THEN Range(solutions)
                         ELSE Range(winners)) :
                  /\ z.id # x.id
                  /\ z.score >= x.score
                  /\ Pairs(z) \cap Pairs(x) # {}

\* a solution is left out, a strictly lower one that trades is selected
C5_Witness ==
    /\ pc = "done"
    /\ \E x \in Range(solutions) :
          /\ x.id \notin Ids(winners)
          /\ \E w \in Range(winners) : w.score < x.score /\ Pairs(w) # {}

\* C9: the returned list is ordered by score, non-increasing, and selected
\* solutions of equal score keep the order they have in the input list.
C9_SelectedOrderedStable ==
    pc = "done" =>
        \A i, j \in 1..Len(winners) :
            i < j =>
                \/ winners[i].score > winners[j].score
                \/ /\ winners[i].score = winners[j].score
                   /\ Position(winners[i].id) < Position(winners[j].id)

\* winners that tie, and a winner of higher score given later in the input
C9_Witness ==
    /\ pc = "done"
    /\ Len(winners) >= 3
    /\ \E i, j \in 1..Len(winners) :
          i < j /\ winners[i].score = winners[j].score
    /\ \E i, j \in 1..Len(winners) :
          /\ i < j
          /\ winners[i].score > winners[j].score
          /\ Position(winners[i].id) > Position(winners[j].id)

\* C10: on one input the cumulative mode selects a subset of what the
\* non-cumulative mode selects, its blocked set contains the other's after
\* every step of the scan, and both modes select the first solution of the
\* sorted order (a solution no other has a higher score than, the earliest
\* of the input among them).
C10_CumulativeSelectsSubset ==
    pc = "done" =>
        \A plain \in {ScanStates(solutions, FALSE)} :
        \A cumulative \in {ScanStates(solutions, TRUE)} :
        \A other \in {select_solutions(solutions, ~cumulative_filtering)} :
            /\ IF cumulative_filtering
               THEN Ids(winners) \subseteq Ids(other)
               ELSE Ids(other) \subseteq Ids(winners)
            /\ \A k \in 1..(Len(solutions) + 1) :
                  plain[k].filter_set \subseteq cumulative[k].filter_set
            /\ solutions # <<>> =>
                  /\ winners # <<>>
                  /\ other # <<>>
                  /\ winners[1] = other[1]
                  /\ \A x \in Range(solutions) :
                        \/ x.score < winners[1].score
                        \/ /\ x.score = winners[1].score
                           /\ Position(x.id) >= Position(winners[1].id)

\* the cumulative mode ran and selected strictly less than the other mode
C10_Witness ==
    /\ pc = "done"
    /\ cumulative_filtering
    /\ Len(winners) >= 2
    /\ Len(winners) < Len(select_solutions(solutions, FALSE))

-----------------------------------------------------------------------------
(* Properties of the filter and the rewards, under SpecMechanism.          *)

\* C2 as claimed: every solution the filter returns has, on each pair it
\* touches for which a baseline exists, a per-pair score not less than the
\* sum of the scores of that baseline's trades.
C2_SurvivorsReachBaseline ==
    pc = "done" =>
        \A baseline_solutions \in {compute_baseline_solutions(solutions)} :
            \A s \in Range(filtered_solutions) :
                \A p \in Pairs(s) \cap DOMAIN baseline_solutions :
                    PairScore(s, p) >= SumScores(baseline_solutions[p].trades)

\* C2 amended: every returned solution that touches two or more pairs has,
\* on each pair it touches for which a baseline exists, a per-pair score not
\* less than the sum of the scores of that baseline's trades; of two
\* single-pair solutions on the same pair, the lower one is returned too.
C2_MultiPairSurvivorsReachBaseline ==
    pc = "done" =>
        /\ \A baseline_solutions \in {compute_baseline_solutions(solutions)} :
              \A s \in Range(filtered_solutions) :
                  Cardinality(Pairs(s)) >= 2 =>
                      \A p \in Pairs(s) \cap DOMAIN baseline_solutions :
                          PairScore(s, p) >=
                              SumScores(baseline_solutions[p].trades)
        /\ \A x, y \in Range(solutions) :
              (/\ Cardinality(Pairs(x)) = 1
               /\ Pairs(x) = Pairs(y)
               /\ SumScores(x.trades) < SumScores(y.trades))
              => x.id \in Ids(filtered_solutions)

\* two single-pair solutions on one pair with different scores, and a
\* two-pair solution that survives beside a baseline of score 2 or more on
\* one of its pairs
C2_Witness ==
    /\ pc = "done"
    /\ \E x, y \in Range(solutions) :
          /\ Cardinality(Pairs(x)) = 1
          /\ Pairs(x) = Pairs(y)
          /\ SumScores(x.trades) < SumScores(y.trades)
    /\ \E s \in Range(filtered_solutions) :
          /\ Cardinality(Pairs(s)) >= 2
          /\ \E p \in Pairs(s) \cap DOMAIN compute_baseline_solutions(solutions) :
                SumScores(compute_baseline_solutions(solutions)[p].trades) > 1

\* C3 as claimed: the reward map is keyed by the solvers of the winners,
\* exactly, each mapped to 0.
C3_RewardsKeyedBySolver ==
    pc = "done" =>
        /\ DOMAIN rewards = {w.solver : w \in Range(winners)}
        /\ \A k \in DOMAIN rewards : rewards[k] = 0

\* C8: every solution of the input whose trades are all on one directed
\* token pair is in the output of the filter.
C8_SinglePairSurvives ==
    pc = "done" =>
        \A x \in Range(solutions) :
            Cardinality(Pairs(x)) = 1 => x \in Range(filtered_solutions)

\* a single-pair solution survives below another single-pair solution of
\* the same pair, while some solution is rejected
C8_Witness ==
    /\ pc = "done"
    /\ \E x, y \in Range(filtered_solutions) :
          /\ Cardinality(Pairs(x)) = 1
          /\ Pairs(x) = Pairs(y)
          /\ SumScores(x.trades) < SumScores(y.trades)
          /\ x.score < y.score
    /\ Len(filtered_solutions) < Len(solutions)

-----------------------------------------------------------------------------
(* Properties of the replay, under Spec.                                   *)

\* the trade ids of the winners of the auctions 1..n
SettledBy(n) ==
    UNION {TradeIds(w) : w \in UNION {Range(winners_per_auction[m]) : m \in 1..n}}

\* C4: with remove_executed_orders, no winner of an auction holds a trade
\* whose id is in a winner of an earlier auction, and a solution of the
\* last auction whose trades were all settled before it is not handed to
\* the mechanism.
C4_NoSettledOrderWinsAgain ==
    remove_executed_orders =>
        /\ \A n \in 1..Len(winners_per_auction) :
              \A w \in Range(winners_per_auction[n]) :
                  TradeIds(w) \cap SettledBy(n - 1) = {}
        /\ winners_per_auction # <<>> =>
              \A x \in Range(solutions) :
                  TradeIds(x) \subseteq SettledBy(Len(winners_per_auction) - 1)
                      => x.id \notin Ids(solutions_filtered)

\* the second auction holds a solution settled in full by the first, and
\* still has a winner
C4_Witness ==
    /\ remove_executed_orders
    /\ Len(winners_per_auction) = 2
    /\ winners_per_auction[2] # <<>>
    /\ \E x \in Range(solutions) :
          TradeIds(x) # {} /\ TradeIds(x) \subseteq SettledBy(1)
    /\ \E x \in Range(solutions) :
          /\ TradeIds(x) \cap SettledBy(1) # {}
          /\ x.id \in Ids(solutions_filtered)

\* C6: the settled-order set starts empty, is at every point the union of
\* the trade ids of the winners so far, and a step never removes an id.
C6_SettledSetOnlyGrows ==
    /\ order_uids_settled = {}
    /\ [](order_uids_settled = SettledBy(Len(winners_per_auction)))
    /\ [][order_uids_settled \subseteq order_uids_settled']_vars

\* two auctions each settled an order the other did not
C6_Witness ==
    /\ Len(winners_per_auction) = 2
    /\ SettledBy(1) # {}
    /\ winners_per_auction[2] # <<>>
    /\ \E w \in Range(winners_per_auction[2]) :
          TradeIds(w) \cap SettledBy(1) = {} /\ TradeIds(w) # {}
    /\ ~ (SettledBy(1) \subseteq UNION {TradeIds(w) : w \in Range(winners_per_auction[2])})

\* C7: with remove_executed_orders, every solution handed to the mechanism,
\* and so every winner, has a score that is the sum of the scores of its
\* trades and is strictly positive.
C7_HandedScoreIsPositiveSum ==
    remove_executed_orders =>
        /\ \A s \in Range(solutions_filtered) \cup Range(winners) :
              s.score = SumScores(s.trades) /\ s.score > 0
        /\ \A n \in 1..Len(winners_per_auction) :
              \A w \in Range(winners_per_auction[n]) :
                  w.score = SumScores(w.trades) /\ w.score > 0

\* a winner whose declared score was not the sum of its trades and that
\* lost a settled trade before the mechanism ran
C7_Witness ==
    /\ remove_executed_orders
    /\ \E w \in Range(winners) :
          \E x \in Range(solutions) :
              /\ x.id = w.id
              /\ x.score # SumScores(x.trades)
              /\ Len(w.trades) < Len(x.trades)
              /\ w.score # x.score
====
